---- MODULE Spec2Model ----
(***************************************************************************)
(* Model of mogptk/sm_lmc.py: the SM_LMC model class, its constructor      *)
(* (kernel assembly) and estimate_params (parameter initialisation).       *)
(*                                                                         *)
(* Numbers are exact: a scalar is a record [f, k, n, d] standing for       *)
(* f(n/d), where f is "id", "sqrt" (np.sqrt of n/d) or "pi" (n/d times     *)
(* np.pi) and k is "fin", "nan" or "inf" as numpy produces them.           *)
(* Arrays are sequences; Python index i is TLA+ index i+1.                  *)
(*                                                                         *)
(* sm_lmc.py uses the names np and _estimate_from_sm without importing     *)
(* them (its imports are lines 1-2).  The model reads np as numpy and      *)
(* _estimate_from_sm as the repository's independent spectral-mixture fit; *)
(* read literally, lines 67 and 79 would raise NameError before the first  *)
(* set_param call of either supported method.                              *)
(***************************************************************************)
EXTENDS Integers, Sequences, FiniteSets, TLC

\* ---------------------------------------------------------------- bounds
MaxQ == 2
MaxRq == 2
MaxD == 2
MaxM == 2
MaxN == 2

\* sample values of the observations and of the estimators' outputs
YVals == {0 - 1, 2}
PeakVals == {0, 1}
Methods == {"BNSE", "SM", "MOSM", "bnse"}

\* ---------------------------------------------------------------- numpy scalars
Abs(x) == IF x < 0 THEN 0 - x ELSE x

RECURSIVE GCD(_, _)
GCD(a, b) == IF b = 0 THEN a ELSE GCD(b, a % b)

Fin(n, d) ==
    LET g == GCD(Abs(n), d)
    IN  [f |-> "id", k |-> "fin", n |-> n \div g, d |-> d \div g]

NaN == [f |-> "id", k |-> "nan", n |-> 0, d |-> 1]

Inf == [f |-> "id", k |-> "inf", n |-> 1, d |-> 1]

Num(i) == Fin(i, 1)

Add(a, b) ==
    IF a.k = "nan" \/ b.k = "nan" THEN NaN
    ELSE IF a.k = "inf" \/ b.k = "inf" THEN Inf
    ELSE Fin(a.n * b.d + b.n * a.d, a.d * b.d)

Sub(a, b) ==
    IF a.k # "fin" \/ b.k # "fin" THEN NaN
    ELSE Fin(a.n * b.d - b.n * a.d, a.d * b.d)

Mul(a, b) ==
    IF a.k = "nan" \/ b.k = "nan" THEN NaN
    ELSE IF a.k = "inf" \/ b.k = "inf" THEN Inf
    ELSE Fin(a.n * b.n, a.d * b.d)

\* numpy true division of non-negative operands: x/0 is inf, 0/0 is nan
Div(a, b) ==
    IF a.k = "nan" \/ b.k = "nan" THEN NaN
    ELSE IF a.k = "inf" THEN (IF b.k = "inf" THEN NaN ELSE Inf)
    ELSE IF b.k = "inf" THEN Num(0)
    ELSE IF b.n = 0 THEN (IF a.n = 0 THEN NaN ELSE Inf)
    ELSE IF b.n < 0 THEN Fin((0 - a.n) * b.d, a.d * (0 - b.n))
    ELSE Fin(a.n * b.d, a.d * b.n)

np_sqrt(a) == [a EXCEPT !.f = "sqrt"]

times_pi(a) == [a EXCEPT !.f = "pi"]

RECURSIVE np_sum(_)
np_sum(s) == IF s = <<>> THEN Num(0) ELSE Add(Head(s), np_sum(Tail(s)))

np_mean(s) == Div(np_sum(s), Num(Len(s)))

\* ndarray.var(): mean(abs(x - x.mean())**2)
np_var(s) ==
    LET m == np_mean(s)
    IN  np_mean([i \in 1..Len(s) |-> Mul(Sub(s[i], m), Sub(s[i], m))])

RECURSIVE Flatten(_)
Flatten(rows) == IF rows = <<>> THEN <<>> ELSE Head(rows) \o Flatten(Tail(rows))

Ints(s) == [i \in 1..Len(s) |-> Num(s[i])]

\* ---------------------------------------------------------------- state
VARIABLES
    args,         \* the constructor's arguments [Q, Rq]
    dataset,      \* [input_dims, output_dims, Y]: Y[c] is channel c's observed outputs
    bnse,         \* what dataset.get_bnse_estimation returns: amplitudes, means, variances
    smfit,        \* what the independent SM fit returns: one dict per component
    phase,        \* "new" | "built" | "raised": the constructor's outcome
    base_init,    \* model.__init__ has run
    ctx_entered,  \* graph.as_default()/session.as_default() have been entered
    allocated,    \* the kernel objects the constructor created, in order
    kernels,      \* the composed kernel handed to _build
    self_Q,
    self_Rq,
    params,       \* params[i][name]: the value of parameter `name` of kernel i
    fresh,        \* fresh[i][name]: the last estimate_params call wrote the slot
    last          \* the last estimate_params call: method, outcome, set_param calls

vars == <<args, dataset, bnse, smfit, phase, base_init, ctx_entered, allocated,
          kernels, self_Q, self_Rq, params, fresh, last>>

Names == {"constant", "mean", "scale", "variance", "noise"}
Unset == <<>>

\* ---------------------------------------------------------------- inputs
Cube(a, b, c, v) == [i \in 1..a |-> [j \in 1..b |-> [l \in 1..c |-> v]]]

\* the array of shape (a, b, c) that holds m[i][j] at index p of the last axis, 1 elsewhere
CubeAt(a, b, c, p, m) ==
    [i \in 1..a |-> [j \in 1..b |-> [l \in 1..c |-> IF l = p THEN m[i][j] ELSE 1]]]

Matrix(a, b, v) == [i \in 1..a |-> [j \in 1..b |-> v]]

Matrices(a, b) == [1..a -> [1..b -> PeakVals]]

DefaultY(M) == [c \in 1..M |-> <<0 - 1, 2>>]

DefaultBnse(D, M, K) ==
    [amplitudes |-> Cube(M, D, K, 1), means |-> Cube(M, D, K, 1), variances |-> Cube(M, D, K, 1)]

DefaultDict(D, M) ==
    [weight |-> Matrix(D, M, 1), mean |-> Matrix(D, M, 1), scale |-> Matrix(D, M, 1)]

DefaultSm(D, M, K) == [q \in 1..K |-> DefaultDict(D, M)]

Channels == UNION { [1..n -> YVals] : n \in 1..MaxN }

InitWith(Q, Rq, D, M, Y, b, s) ==
    /\ args = [Q |-> Q, Rq |-> Rq]
    /\ dataset = [input_dims |-> D, output_dims |-> M, Y |-> Y]
    /\ bnse = b
    /\ smfit = s
    /\ phase = "new"
    /\ base_init = FALSE
    /\ ctx_entered = FALSE
    /\ allocated = <<>>
    /\ kernels = <<>>
    /\ self_Q = 0
    /\ self_Rq = 0
    /\ params = <<>>
    /\ fresh = <<>>
    /\ last = [method |-> "", raised |-> FALSE, failed_at |-> 0 - 1,
               log |-> <<>>, repeat |-> FALSE]

\* the a x b matrices that differ from the all-ones matrix in one row or one column
OneLine(a, b) ==
    { [i \in 1..a |-> [j \in 1..b |-> IF i = r THEN v[j] ELSE 1]] :
        r \in 1..a, v \in [1..b -> PeakVals] }
    \cup { [i \in 1..a |-> [j \in 1..b |-> IF j = c THEN v[i] ELSE 1]] :
        c \in 1..b, v \in [1..a -> PeakVals] }

\* the observations in which one channel varies
OneChannel(M) ==
    { [DefaultY(M) EXCEPT ![c] = y] : c \in 1..M, y \in Channels }

\* inputs common to both specifications: the fixed inputs, and estimators that
\* return fewer components than the model has
InitCommon(Q, Rq, D, M) ==
    \/ InitWith(Q, Rq, D, M, DefaultY(M), DefaultBnse(D, M, Q), DefaultSm(D, M, Q))
    \/ /\ Q >= 1 /\ Rq = 1
       /\ \E K \in 0..(Q - 1) :
             InitWith(Q, Rq, D, M, DefaultY(M), DefaultBnse(D, M, K), DefaultSm(D, M, K))

\* The constructor's arguments, the dataset and the estimators' outputs.  For a
\* model that can be built one input at a time varies; the others keep a fixed value.
Init ==
    \E Q \in 0..MaxQ, Rq \in 0..MaxRq, D \in 1..MaxD, M \in 1..MaxM :
        \/ InitCommon(Q, Rq, D, M)
        \/ /\ Q >= 1 /\ Rq = 1
           /\ \/ \E y \in OneChannel(M) :
                    InitWith(Q, Rq, D, M, y, DefaultBnse(D, M, Q), DefaultSm(D, M, Q))
              \/ \E p \in 1..Q, m \in OneLine(M, D) :
                    InitWith(Q, Rq, D, M, DefaultY(M),
                             [DefaultBnse(D, M, Q) EXCEPT
                                 !.amplitudes = CubeAt(M, D, Q, p, m)],
                             DefaultSm(D, M, Q))

\* The inputs of the value computations: every amplitude matrix of one
\* component, and one row or column at a time of the other arrays.
InitValues ==
    \E Q \in 0..MaxQ, Rq \in 0..MaxRq, D \in 1..MaxD, M \in 1..MaxM :
        \/ InitCommon(Q, Rq, D, M)
        \/ /\ Q >= 1 /\ Rq = 1
           /\ \/ \E y \in OneChannel(M) :
                    InitWith(Q, Rq, D, M, y, DefaultBnse(D, M, Q), DefaultSm(D, M, Q))
              \/ \E p \in 1..Q, m \in Matrices(M, D) :
                    InitWith(Q, Rq, D, M, DefaultY(M),
                             [DefaultBnse(D, M, Q) EXCEPT
                                 !.amplitudes = CubeAt(M, D, Q, p, m)],
                             DefaultSm(D, M, Q))
              \/ \E p \in 1..Q, m \in OneLine(M, D), f \in {"means", "variances"} :
                    InitWith(Q, Rq, D, M, DefaultY(M),
                             [DefaultBnse(D, M, Q) EXCEPT ![f] = CubeAt(M, D, Q, p, m)],
                             DefaultSm(D, M, Q))
              \/ \E p \in 1..Q, m \in OneLine(D, M), f \in {"weight", "mean", "scale"} :
                    InitWith(Q, Rq, D, M, DefaultY(M), DefaultBnse(D, M, Q),
                             [DefaultSm(D, M, Q) EXCEPT ![p][f] = m])

\* ---------------------------------------------------------------- __init__
SpectralMixtureLMC(input_dims, output_dims, Rq) ==
    [kind |-> "SpectralMixtureLMC", input_dims |-> input_dims,
     output_dims |-> output_dims, Rq |-> Rq]

Noise(input_dims, output_dims) ==
    [kind |-> "Noise", input_dims |-> input_dims, output_dims |-> output_dims, Rq |-> 0]

\* mutant: the loop runs over range(Q - 1)
kernel_loop_short(q, D, M, Rq) ==
    [i \in 1..(q - 1) |-> SpectralMixtureLMC(D, M, Rq)]

\* the loop of lines 28-37: kernel_set after q iterations
RECURSIVE kernel_loop(_, _, _, _)
kernel_loop(q, D, M, Rq) ==
    IF q = 0 THEN <<>>
    ELSE Append(kernel_loop(q - 1, D, M, Rq), SpectralMixtureLMC(D, M, Rq))

\* mutant: Rq is checked after the kernel has been built
SM_LMC_init_late_check(a, ds) ==
    LET kernel_set ==
            Append([i \in 1..a.Q |-> SpectralMixtureLMC(ds.input_dims, ds.output_dims, a.Rq)],
                   Noise(ds.input_dims, ds.output_dims))
    IN  IF a.Q = 0
        THEN [phase |-> "raised", base_init |-> TRUE, ctx_entered |-> TRUE,
              allocated |-> <<>>, kernels |-> <<>>]
        ELSE IF a.Rq # 1
        THEN [phase |-> "raised", base_init |-> TRUE, ctx_entered |-> TRUE,
              allocated |-> kernel_set, kernels |-> <<>>]
        ELSE [phase |-> "built", base_init |-> TRUE, ctx_entered |-> TRUE,
              allocated |-> kernel_set, kernels |-> kernel_set]

\* the constructor's effects for arguments a on dataset ds
SM_LMC_init(a, ds) ==
    IF a.Rq # 1
    THEN [phase |-> "raised", base_init |-> FALSE, ctx_entered |-> FALSE,
          allocated |-> <<>>, kernels |-> <<>>]
    ELSE IF a.Q = 0
    THEN \* kernel_set is unbound at line 38
         [phase |-> "raised", base_init |-> TRUE, ctx_entered |-> TRUE,
          allocated |-> <<>>, kernels |-> <<>>]
    ELSE LET kernel_set ==
                 Append(kernel_loop(a.Q, ds.input_dims, ds.output_dims, a.Rq),
                        Noise(ds.input_dims, ds.output_dims))
         IN  [phase |-> "built", base_init |-> TRUE, ctx_entered |-> TRUE,
              allocated |-> kernel_set, kernels |-> kernel_set]

Construct ==
    /\ phase = "new"
    /\ \E r \in {SM_LMC_init(args, dataset)} :
           /\ phase' = r.phase
           /\ base_init' = r.base_init
           /\ ctx_entered' = r.ctx_entered
           /\ allocated' = r.allocated
           /\ kernels' = r.kernels
           /\ self_Q' = IF r.base_init THEN args.Q ELSE self_Q
           /\ self_Rq' = IF r.base_init THEN args.Rq ELSE self_Rq
           /\ params' = [i \in 0..(Len(r.kernels) - 1) |-> [nm \in Names |-> Unset]]
           /\ fresh' = [i \in 0..(Len(r.kernels) - 1) |-> [nm \in Names |-> FALSE]]
    /\ UNCHANGED <<args, dataset, bnse, smfit, last>>

\* ---------------------------------------------------------------- estimate_params
Supported == {"BNSE", "SM"}

\* size of the component axis of the arrays get_bnse_estimation returned
Peaks(b) == Len(b.amplitudes[1][1])

\* mutant: the matrix is not divided by its mean
BNSE_constant_unnormalised(ds, b, q) ==
    [d \in 1..ds.input_dims |->
        [channel \in 1..Len(ds.Y) |->
            np_sqrt(np_mean(Ints([j \in 1..Len(b.amplitudes[channel]) |->
                                     b.amplitudes[channel][j][q + 1]])))]]

\* lines 67-71: the matrix written as `constant` on the BNSE path
BNSE_constant(ds, b, q) ==
    LET constant ==
            [d \in 1..ds.input_dims |->
                [channel \in 1..Len(ds.Y) |->
                    np_mean(Ints([j \in 1..Len(b.amplitudes[channel]) |->
                                     b.amplitudes[channel][j][q + 1]]))]]
        cmean == np_mean(Flatten(constant))
    IN  [d \in 1..ds.input_dims |->
            [channel \in 1..Len(ds.Y) |-> np_sqrt(Div(constant[d][channel], cmean))]]

\* arr[:, :, q].mean(axis=0): the average over the first (channel) axis
MeanAxis0At(arr, q) ==
    [j \in 1..Len(arr[1]) |-> np_mean(Ints([c \in 1..Len(arr) |-> arr[c][j][q + 1]]))]

\* lines 72, 76: mean * 2 * np.pi
BNSE_mean(b, q) ==
    LET mean == MeanAxis0At(b.means, q)
    IN  [j \in 1..Len(mean) |-> times_pi(Mul(mean[j], Num(2)))]

\* lines 73, 77: variance * 2
BNSE_scale(b, q) ==
    LET variance == MeanAxis0At(b.variances, q)
    IN  [j \in 1..Len(variance) |-> Mul(variance[j], Num(2))]

\* a 2-d array's mean(axis=0) and mean(axis=1)
MeanAxis0(m) == [c \in 1..Len(m[1]) |-> np_mean(Ints([d \in 1..Len(m) |-> m[d][c]]))]

MeanAxis1(m) == [d \in 1..Len(m) |-> np_mean(Ints(m[d]))]

\* v.reshape(rows, -1) of a 1-d array whose size rows divides
Reshape(v, rows) ==
    LET cols == Len(v) \div rows
    IN  [r \in 1..rows |-> [c \in 1..cols |-> v[(r - 1) * cols + c]]]

\* line 81
SM_constant(s, q, Rq) == Reshape(MeanAxis0(s[q + 1].weight), Rq)

\* line 82
SM_mean(s, q) == MeanAxis1(s[q + 1].mean)

\* line 83
SM_variance(s, q) ==
    LET scale == MeanAxis1(s[q + 1].scale)
    IN  [j \in 1..Len(scale) |-> Mul(scale[j], Num(2))]

NoiseDivisor == 30

\* mutant: the second moment instead of the variance
noise_vector_uncentred(ds) ==
    [i \in 1..Len(ds.Y) |->
        Div(np_mean([k \in 1..Len(ds.Y[i]) |-> Num(ds.Y[i][k] * ds.Y[i][k])]),
            Num(NoiseDivisor))]

\* mutant: the noise is added to the value the slot already holds
noise_vector_accumulate(ds) ==
    [i \in 1..Len(ds.Y) |->
        IF params[self_Q]["noise"] = Unset
        THEN Div(np_var(Ints(ds.Y[i])), Num(NoiseDivisor))
        ELSE Add(params[self_Q]["noise"][i],
                 Div(np_var(Ints(ds.Y[i])), Num(NoiseDivisor)))]

\* lines 87-89
noise_vector(ds) ==
    [i \in 1..Len(ds.Y) |-> Div(np_var(Ints(ds.Y[i])), Num(NoiseDivisor))]

Write(q, name, val) == [q |-> q, name |-> name, val |-> val]

\* mutant: mean is written before constant
component_writes_swapped(method, q) ==
    IF method = "BNSE"
    THEN << Write(q, "mean", BNSE_mean(bnse, q)),
            Write(q, "constant", BNSE_constant(dataset, bnse, q)),
            Write(q, "scale", BNSE_scale(bnse, q)) >>
    ELSE << Write(q, "mean", SM_mean(smfit, q)),
            Write(q, "constant", SM_constant(smfit, q, self_Rq)),
            Write(q, "variance", SM_variance(smfit, q)) >>

\* the set_param calls of one iteration of the loop over q (lines 75-77, 81-83)
component_writes(method, q) ==
    IF method = "BNSE"
    THEN << Write(q, "constant", BNSE_constant(dataset, bnse, q)),
            Write(q, "mean", BNSE_mean(bnse, q)),
            Write(q, "scale", BNSE_scale(bnse, q)) >>
    ELSE << Write(q, "constant", SM_constant(smfit, q, self_Rq)),
            Write(q, "mean", SM_mean(smfit, q)),
            Write(q, "variance", SM_variance(smfit, q)) >>

\* the set_param calls of iterations 0 .. n-1
RECURSIVE loop_writes(_, _)
loop_writes(method, n) ==
    IF n = 0 THEN <<>>
    ELSE loop_writes(method, n - 1) \o component_writes(method, n - 1)

\* line 90
noise_write(ds, Q) == << Write(Q, "noise", noise_vector(ds)) >>

\* how many components the chosen estimator returned
Available(method) == IF method = "BNSE" THEN Peaks(bnse) ELSE Len(smfit)

\* mutant: no else branch, an unsupported method falls through to the noise write
run_estimate_fallthrough(method) ==
    IF method \in Supported
    THEN LET n == IF Available(method) < self_Q THEN Available(method) ELSE self_Q
         IN  IF n < self_Q
             THEN [raised |-> TRUE, failed_at |-> n, writes |-> loop_writes(method, n)]
             ELSE [raised |-> FALSE, failed_at |-> 0 - 1,
                   writes |-> loop_writes(method, n) \o noise_write(dataset, self_Q)]
    ELSE [raised |-> FALSE, failed_at |-> 0 - 1, writes |-> noise_write(dataset, self_Q)]

\* mutant: the estimate is validated first, so a short estimate writes nothing
run_estimate_all_or_nothing(method) ==
    IF method \in Supported
    THEN IF Available(method) < self_Q
         THEN [raised |-> TRUE, failed_at |-> Available(method), writes |-> <<>>]
         ELSE [raised |-> FALSE, failed_at |-> 0 - 1,
               writes |-> loop_writes(method, self_Q) \o noise_write(dataset, self_Q)]
    ELSE [raised |-> TRUE, failed_at |-> 0 - 1, writes |-> <<>>]

\* lines 64-90: the call's outcome and its set_param calls in order.  Indexing
\* component q of an estimate that holds fewer than Q components raises
\* IndexError at iteration q, before that iteration's first set_param.
run_estimate(method) ==
    IF method \in Supported
    THEN LET n == IF Available(method) < self_Q THEN Available(method) ELSE self_Q
         IN  IF n < self_Q
             THEN [raised |-> TRUE, failed_at |-> n, writes |-> loop_writes(method, n)]
             ELSE [raised |-> FALSE, failed_at |-> 0 - 1,
                   writes |-> loop_writes(method, n) \o noise_write(dataset, self_Q)]
    ELSE [raised |-> TRUE, failed_at |-> 0 - 1, writes |-> <<>>]

\* model.set_param(q, name, val): the write primitive of the base class
set_param(store, q, name, val) == [store EXCEPT ![q][name] = val]

RECURSIVE apply_writes(_, _)
apply_writes(store, ws) ==
    IF ws = <<>> THEN store
    ELSE apply_writes(set_param(store, Head(ws).q, Head(ws).name, Head(ws).val), Tail(ws))

EstimateParams(method) ==
    /\ phase = "built"
    /\ \E r \in {run_estimate(method)} :
           /\ params' = apply_writes(params, r.writes)
           /\ fresh' = [i \in DOMAIN params |-> [nm \in Names |->
                           \E k \in 1..Len(r.writes) :
                               r.writes[k].q = i /\ r.writes[k].name = nm]]
           /\ last' = [method |-> method, raised |-> r.raised, failed_at |-> r.failed_at,
                       log |-> [k \in 1..Len(r.writes) |-> <<r.writes[k].q, r.writes[k].name>>],
                       repeat |-> (last.method = method /\ ~last.raised)]
    /\ UNCHANGED <<args, dataset, bnse, smfit, phase, base_init, ctx_entered,
                   allocated, kernels, self_Q, self_Rq>>

Next ==
    \/ Construct
    \/ \E method \in Methods : EstimateParams(method)

Spec == Init /\ [][Next]_vars

\* the first estimate_params call on each model, over the wider inputs
FirstEstimate == last.method = "" /\ \E method \in Methods : EstimateParams(method)

NextValues ==
    \/ Construct
    \/ FirstEstimate

SpecValues == InitValues /\ [][NextValues]_vars

\* ---------------------------------------------------------------- properties
RECURSIVE SumInts(_)
SumInts(s) == IF s = <<>> THEN 0 ELSE Head(s) + SumInts(Tail(s))

SumSquares(s) == SumInts([i \in 1..Len(s) |-> s[i] * s[i]])

Called == phase = "built" /\ last.method # ""

Completed == Called /\ last.method \in Supported /\ ~last.raised

WidthName(method) == IF method = "BNSE" THEN "scale" ELSE "variance"

SomeSlotSet == \E i \in DOMAIN params : \E nm \in Names : params[i][nm] # Unset

\* C1: a call with an unsupported method raises without calling set_param, and
\* every parameter slot keeps the value it had before the call.
C1_UnsupportedMethodRaisesFirst ==
    [][(phase = "built" /\ last'.method \notin Supported)
          => (last'.raised /\ last'.log = <<>> /\ params' = params)]_vars

C1_Witness ==
    /\ Called /\ last.method \notin Supported /\ last.raised
    /\ SomeSlotSet

\* C2: for Rq # 1 the constructor raises before the base initialiser runs, before
\* the graph/session context is entered and before any kernel block is allocated.
C2_InvalidRqRaisesBeforeBuild ==
    (args.Rq # 1 /\ phase # "new")
        => /\ phase = "raised"
           /\ allocated = <<>>
           /\ kernels = <<>>
           /\ ~base_init
           /\ ~ctx_entered

C2_Witness == args.Rq = 2 /\ args.Q = 2 /\ phase = "raised"

C3_Structure ==
    (args.Q >= 1 /\ args.Rq = 1 /\ phase # "new")
        => /\ phase = "built"
           /\ allocated = kernels
           /\ Len(kernels) = args.Q + 1
           /\ \A i \in 1..args.Q : kernels[i].kind = "SpectralMixtureLMC"
           /\ kernels[args.Q + 1].kind = "Noise"
           /\ DOMAIN params = 0..args.Q

\* C3: for Q >= 1 and Rq = 1 construction succeeds with exactly Q spectral blocks at
\* indices 0..Q-1 followed by one noise block at index Q, and no later step adds,
\* removes or replaces a block.
C3_BlockStructure ==
    /\ []C3_Structure
    /\ [][phase = "built"
            => (kernels' = kernels /\ allocated' = allocated
                /\ DOMAIN params' = DOMAIN params)]_vars

C3_Witness ==
    /\ args.Q = 2 /\ Completed /\ last.method = "SM"
    /\ Len(kernels) = 3

\* C4: a completed call makes its set_param calls in the order q = 0 .. Q-1 (constant,
\* mean, then scale or variance) and the noise write to index Q last, each once.
C4_WriteOrder ==
    Completed
        => /\ Len(last.log) = 3 * self_Q + 1
           /\ \A q \in 0..(self_Q - 1) :
                 /\ last.log[3 * q + 1] = <<q, "constant">>
                 /\ last.log[3 * q + 2] = <<q, "mean">>
                 /\ last.log[3 * q + 3] = <<q, WidthName(last.method)>>
           /\ last.log[3 * self_Q + 1] = <<self_Q, "noise">>
           /\ \A k \in 1..Len(last.log) : last.log[k][1] \in 0..self_Q

C4_Witness == Completed /\ self_Q = 2 /\ last.method = "BNSE" /\ Len(last.log) = 7

ComponentWritten(i, method) ==
    /\ \A nm \in {"constant", "mean", WidthName(method)} :
          fresh[i][nm] /\ params[i][nm] # Unset
    /\ \A k \in 1..3 : last.log[3 * i + k][1] = i

NothingWritten(i) == \A nm \in Names : ~fresh[i][nm]

C6_LastCallOverwritesAll ==
    Completed
        => \A i \in DOMAIN params : \A nm \in Names :
              params[i][nm] # Unset => fresh[i][nm]

C8_NoiseIsVarianceOver30 ==
    Completed
        => LET noise == params[self_Q]["noise"]
           IN  /\ Len(noise) = dataset.output_dims
               /\ \A i \in 1..dataset.output_dims :
                     LET y == dataset.Y[i]
                         N == Len(y)
                         x == noise[i]
                     IN  /\ x.f = "id" /\ x.k = "fin" /\ x.d > 0 /\ x.n >= 0
                         /\ x.n * 30 * N * N
                              = x.d * (N * SumSquares(y) - SumInts(y) * SumInts(y))

C8_Witness ==
    /\ Completed /\ last.method = "SM" /\ dataset.output_dims = 2
    /\ params[self_Q]["noise"][1].n > 0
    /\ params[self_Q]["noise"][1] # params[self_Q]["noise"][2]

\* channel c's amplitudes of peak q summed over the input dimensions
AmpSum(c, q) == SumInts([j \in 1..Len(bnse.amplitudes[c]) |-> bnse.amplitudes[c][j][q + 1]])

AmpTotal(q) == SumInts([c \in 1..dataset.output_dims |-> AmpSum(c, q)])

AcrossChannels(arr, j, q) == SumInts([c \in 1..dataset.output_dims |-> arr[c][j][q + 1]])

C9_Constant(q) ==
    LET constant == params[q]["constant"]
        M == dataset.output_dims
    IN  \A d \in 1..Len(constant) :
           /\ Len(constant[d]) = M
           /\ \A c \in 1..M :
                 LET x == constant[d][c]
                 IN  /\ x.f = "sqrt"
                     /\ IF AmpTotal(q) = 0 THEN x.k = "nan"
                        ELSE x.k = "fin" /\ x.n * AmpTotal(q) = x.d * AmpSum(c, q) * M

C9_Mean(q) ==
    LET mean == params[q]["mean"]
    IN  /\ Len(mean) = dataset.input_dims
        /\ \A j \in 1..Len(mean) :
              /\ mean[j].f = "pi" /\ mean[j].k = "fin"
              /\ mean[j].n * dataset.output_dims
                   = mean[j].d * 2 * AcrossChannels(bnse.means, j, q)

C9_Scale(q) ==
    LET scale == params[q]["scale"]
    IN  /\ Len(scale) = dataset.input_dims
        /\ \A j \in 1..Len(scale) :
              /\ scale[j].f = "id" /\ scale[j].k = "fin"
              /\ scale[j].n * dataset.output_dims
                   = scale[j].d * 2 * AcrossChannels(bnse.variances, j, q)

\* C9: on the BNSE path block q's constant has in column c the square root of
\* channel c's dimension-averaged amplitude over the mean of the un-normalised
\* matrix; its mean is the channel-averaged peak mean times 2*pi; its scale is the
\* channel-averaged peak variance times 2.
C9_BNSEValues ==
    (Called /\ last.method = "BNSE")
        => \A q \in 0..(self_Q - 1) :
              fresh[q]["constant"] => (C9_Constant(q) /\ C9_Mean(q) /\ C9_Scale(q))

C9_Witness ==
    /\ Completed /\ last.method = "BNSE"
    /\ dataset.output_dims = 2 /\ dataset.input_dims = 2 /\ self_Q = 2
    /\ params[1]["constant"][1][1].k = "fin"
    /\ params[1]["constant"][1][1].n = 4 /\ params[1]["constant"][1][1].d = 3

\* C10: the constant a completed call writes to each block q has shape Rq x M
\* (1 x M), under either method and for every input dimensionality.
C10_ConstantShape ==
    Completed
        => \A q \in 0..(self_Q - 1) :
              /\ Len(params[q]["constant"]) = self_Rq
              /\ \A r \in 1..Len(params[q]["constant"]) :
                    Len(params[q]["constant"][r]) = dataset.output_dims

====
